---- MODULE Spec2Model ----
(***************************************************************************)
(* ResQ-Link: the dispatch graph of agents.py (Supervisor, Triage,         *)
(* Logistics, Medical, Tools), the tools of tools.py and the loop of       *)
(* app.py that drives one turn of the graph per user utterance.            *)
(*                                                                         *)
(* Strings are sequences of tokens, so that stripping, replacing, joining  *)
(* and prefixing are computed rather than assumed.  A language-model call  *)
(* is a nondeterministic choice over a small set of results, a failure     *)
(* (an exception) included.                                                *)
(***************************************************************************)
EXTENDS Integers, Sequences, FiniteSets, TLC

\* ------------------------------------------------------------------ bounds
\* Number of user utterances (turns) one session is followed for.
MaxTurns == 2

\* A further turn is followed only when the turns before it took at most
\* this many node steps in all (a turn takes up to max_iterations + 1).
MaxEarlierSteps == 2

\* The same bound in the specification with fairness, which follows one
\* turn in full.
LiveEarlierSteps == 0

\* Node steps followed in one turn; the loop of app.py leaves the turn
\* before it is reached.
MaxNodeSteps == 12

\* app.py: max_iterations = 10
max_iterations == 10

\* ----------------------------------------------------------------- strings
SP == " "
NL == "\n"
Whitespace == {SP, NL}

Str(s) == [kind |-> "str", val |-> s]
Lst(ps) == [kind |-> "list", val |-> ps]

RECURSIVE LStrip(_)
LStrip(s) ==
    IF s # <<>> /\ Head(s) \in Whitespace THEN LStrip(Tail(s)) ELSE s

RECURSIVE RStrip(_)
RStrip(s) ==
    IF s # <<>> /\ s[Len(s)] \in Whitespace
    THEN RStrip(SubSeq(s, 1, Len(s) - 1))
    ELSE s

\* str.strip()
Strip(s) == RStrip(LStrip(s))

\* str.replace(tok, "")
RECURSIVE Remove(_, _)
Remove(s, tok) ==
    IF s = <<>> THEN <<>>
    ELSE IF Head(s) = tok THEN Remove(Tail(s), tok)
         ELSE <<Head(s)>> \o Remove(Tail(s), tok)

\* ' '.join(parts)
RECURSIVE Join(_)
Join(parts) ==
    IF parts = <<>> THEN <<>>
    ELSE IF Len(parts) = 1 THEN parts[1]
         ELSE parts[1] \o <<SP>> \o Join(Tail(parts))

\* One fragment of a multi-part content payload: a plain string, a dict
\* with a 'text' key, or anything else (stringified by str(part)).
PartText(p) ==
    IF p.pk \in {"str", "text"} THEN p.v ELSE <<"repr">> \o p.v

RECURSIVE PartTexts(_)
PartTexts(ps) ==
    IF ps = <<>> THEN <<>> ELSE <<PartText(Head(ps))>> \o PartTexts(Tail(ps))

\* agents.py normalize_message_content: a list content is collapsed into
\* one stripped string; a string content is left as it is.
normalize_message_content(m) ==
    IF m.content.kind = "list"
    THEN [m EXCEPT !.content = Str(Strip(Join(PartTexts(m.content.val))))]
    ELSE m

RECURSIVE NormalizeAll(_)
NormalizeAll(ms) ==
    IF ms = <<>> THEN <<>>
    ELSE <<normalize_message_content(Head(ms))>> \o NormalizeAll(Tail(ms))

\* ---------------------------------------------------------------- messages
\* Every message has the same fields; tool_call_id is 0 except on a tool
\* result, where it is the id of the request the result answers.
HumanMessage(s) ==
    [type |-> "human", content |-> Str(s), tool_calls |-> <<>>, tool_call_id |-> 0]

AIMessage(s) ==
    [type |-> "ai", content |-> Str(s), tool_calls |-> <<>>, tool_call_id |-> 0]

ToolMessage(s, id) ==
    [type |-> "tool", content |-> Str(s), tool_calls |-> <<>>, tool_call_id |-> id]

SystemMessage(s) ==
    [type |-> "system", content |-> Str(s), tool_calls |-> <<>>, tool_call_id |-> 0]

\* hasattr(m, 'tool_calls') and len(m.tool_calls) > 0
HasToolCalls(m) == Len(m.tool_calls) > 0

\* -------------------------------------------------------------- the router
TRIAGE == <<"Triage">>
LOGISTICS == <<"Logistics">>
MEDICAL == <<"Medical">>
FINISH == <<"FINISH">>

\* agents.py line 95: the labels the Supervisor accepts.
Recognized == {TRIAGE, LOGISTICS, MEDICAL, FINISH}

\* What the classification model may answer: the four labels, a label
\* wrapped in whitespace, quotes and a period, a label in another case,
\* free text, a label with a blank inside the quotes, nothing at all.
RouterRaw ==
    { TRIAGE, LOGISTICS, MEDICAL, FINISH,
      <<SP, "'", "Logistics", "'", ".", NL>>,
      <<"Finish">>,
      <<"I", SP, "choose", SP, "Medical">>,
      <<"'", "FINISH", SP, "'">>,
      <<>> }

\* A result of llm.invoke(prompt): an exception (ok = FALSE), or a
\* response whose content is a string or a list of fragments.
RouterResults ==
    { [ok |-> FALSE, content |-> Str(<<>>)] }
    \cup { [ok |-> TRUE, content |-> Str(r)] : r \in RouterRaw }
    \cup { [ok |-> TRUE, content |-> Lst(<<[pk |-> "text", v |-> MEDICAL]>>)] }

\* agents.py lines 89-90, the body of the try: the call may raise, and
\* .strip() raises on a content that is not a string.
RouterTry(r) ==
    IF ~r.ok \/ r.content.kind # "str"
    THEN [exc |-> TRUE, val |-> <<>>]
    ELSE [exc |-> FALSE,
          val |-> Remove(Remove(Strip(r.content.val), "'"), ".")]

\* The except clause made to give up on a failure instead of escalating.
RouterExceptFinish(t) == IF t.exc THEN FINISH ELSE t.val

\* agents.py lines 91-93, the except clause.
RouterExcept(t) == IF t.exc THEN TRIAGE ELSE t.val

\* The validation of lines 95-96 left out.
RouterValidateNone(a) == a

\* agents.py lines 95-96.
RouterValidate(a) == IF a \notin Recognized THEN TRIAGE ELSE a

\* agents.py supervisor_node: the update it returns, and whether an
\* exception leaves the node.
supervisor_node(r) ==
    [next_agent |-> RouterValidate(RouterExcept(RouterTry(r))),
     raised |-> FALSE]

\* The Supervisor recording its decision as a message of the history.
SupervisorMessagesAppend(msgs, out) ==
    Append(NormalizeAll(msgs), AIMessage(out.next_agent))

\* agents.py line 98: the update of the Supervisor has no messages key, so
\* the graph state keeps its list; normalize_message_content (line 64) has
\* written into the objects of that list.
SupervisorMessages(msgs, out) == NormalizeAll(msgs)

\* ---------------------------------------------------------- the responders
\* The f-string "[System Context: {system_context}]\n\nUser: " of each
\* responder, one token per role prompt.
TriageContext == <<"[System Context: Triage Officer]", NL, NL, "User: ">>
LogisticsContext == <<"[System Context: Logistics Coordinator]", NL, NL, "User: ">>
MedicalContext == <<"[System Context: Medical AI Assistant]", NL, NL, "User: ">>

\* [msg for msg in msgs if not isinstance(msg, SystemMessage)]
NonSystem(ms) == SelectSeq(ms, LAMBDA m : m.type # "system")

\* _ensure_human_message returning the list it was given.
ensure_human_messageNever(ms) == ms

\* agents.py _ensure_human_message
ensure_human_message(ms) ==
    IF \E i \in 1..Len(ms) : ms[i].type = "human"
    THEN ms
    ELSE ms \o <<HumanMessage(<<"Hello, I need assistance.">>)>>

\* agents.py lines 141-142 (176-177, 209-210): the role prompt is written
\* into the content of the first message of the filtered list, when that
\* message is a user message.
PrefixFirst(ms, ctx) ==
    IF ms # <<>> /\ ms[1].type = "human"
    THEN [ms EXCEPT ![1].content = Str(ctx \o ms[1].content.val)]
    ELSE ms

\* Index of the first message that is not a system message, 0 if none.
FirstNonSystem(ms) ==
    IF \E i \in 1..Len(ms) : ms[i].type # "system"
    THEN CHOOSE i \in 1..Len(ms) :
            /\ ms[i].type # "system"
            /\ \A j \in 1..(i - 1) : ms[j].type = "system"
    ELSE 0

\* What a responder step does to the message objects of the list it was
\* handed: normalize_message_content and the prefix assignment write into
\* the objects themselves, the list comprehensions only copy the list.
InPlace(ms, ctx) ==
    LET norm == NormalizeAll(ms)
        i == FirstNonSystem(norm)
    IN  IF i # 0 /\ norm[i].type = "human"
        THEN [norm EXCEPT ![i].content = Str(ctx \o norm[i].content.val)]
        ELSE norm

\* The batch without the placeholder of lines 118-119.
BatchNoPlaceholder(base, placeholder, ctx) ==
    ensure_human_message(PrefixFirst(NonSystem(NormalizeAll(base)), ctx))

\* The batch a responder hands to the model, from the list after the
\* empty-history substitution (triage_node only), with the placeholder
\* used when nothing but system messages is left.
Batch(base, placeholder, ctx) ==
    LET ns == NonSystem(NormalizeAll(base))
        kept == IF ns = <<>> THEN <<HumanMessage(placeholder)>> ELSE ns
    IN  ensure_human_message(PrefixFirst(kept, ctx))

\* The responder returning what it has of the response when the
\* invocation raised.
RespondPartial(r, fallback) ==
    normalize_message_content(
        [type |-> "ai", content |-> r.content,
         tool_calls |-> r.tool_calls, tool_call_id |-> 0])

\* The message a responder returns: the model's response, normalized, or
\* the fixed warning of the responder when the invocation raised.
Respond(r, fallback) ==
    IF r.ok
    THEN normalize_message_content(
            [type |-> "ai", content |-> r.content,
             tool_calls |-> r.tool_calls, tool_call_id |-> 0])
    ELSE AIMessage(fallback)

TriageFallback == <<"Triage system encountered an error.">>
LogisticsFallback == <<"Logistics system encountered an error.">>
MedicalFallback == <<"Medical system encountered an error.">>

\* agents.py triage_node
triage_node(msgs, r) ==
    LET base == IF msgs = <<>>
                THEN <<HumanMessage(<<"User reported an incident.">>)>>
                ELSE msgs
    IN  [messages |-> <<Respond(r, TriageFallback)>>,
         batch |-> Batch(base, <<"User needs assistance.">>, TriageContext),
         inplace |-> InPlace(msgs, TriageContext),
         raised |-> FALSE]

\* agents.py logistics_node
logistics_node(msgs, r) ==
    [messages |-> <<Respond(r, LogisticsFallback)>>,
     batch |-> Batch(msgs, <<"User needs logistics assistance.">>, LogisticsContext),
     inplace |-> InPlace(msgs, LogisticsContext),
     raised |-> FALSE]

\* agents.py medical_node
medical_node(msgs, r) ==
    [messages |-> <<Respond(r, MedicalFallback)>>,
     batch |-> Batch(msgs, <<"User needs medical advice.">>, MedicalContext),
     inplace |-> InPlace(msgs, MedicalContext),
     raised |-> FALSE]

\* ------------------------------------------- what the responder models say
\* Content of a response: empty, a text, a multi-part payload with a text
\* and a non-text fragment, a multi-part payload that joins to the text
\* followed by a blank.
ResponseContents ==
    { Str(<<>>),
      Str(<<"reply">>),
      Lst(<<[pk |-> "text", v |-> <<"reply">>], [pk |-> "other", v |-> <<"sig">>]>>),
      Lst(<<[pk |-> "str", v |-> <<"reply">>], [pk |-> "text", v |-> <<>>]>>) }

Call(name, args, id) == [name |-> name, args |-> args, id |-> id]

\* Arguments the model may give log_incident: severity, location, needs.
LogArgs == { <<"Critical", "Main St Shelter", "Medical">> }

\* The Triage model bound to the tools of Logistics as well.
TriageCallsAny(n) ==
    { <<>>,
      <<Call("log_incident", <<"Critical", "Main St Shelter", "Medical">>, n + 1)>>,
      <<Call("check_inventory", <<"water">>, n + 1)>>,
      <<Call("search_shelters", <<"Main St">>, n + 1)>> }

\* tools.py line 65: triage_tools = [log_incident].  The requests a model
\* bound to them may make, with fresh ids from n + 1 on: none, one, or two
\* with the same arguments.
TriageCalls(n) ==
    { <<>> }
    \cup { <<Call("log_incident", a, n + 1)>> : a \in LogArgs }
    \cup { <<Call("log_incident", a, n + 1), Call("log_incident", a, n + 2)>> :
              a \in LogArgs }

\* tools.py line 66: logistics_tools = [check_inventory, search_shelters].
LogisticsCalls(n) ==
    { <<>>,
      <<Call("check_inventory", <<"water">>, n + 1)>>,
      <<Call("check_inventory", <<"xyz-nonexistent">>, n + 1)>>,
      <<Call("search_shelters", <<"Main St">>, n + 1)>>,
      <<Call("check_inventory", <<"First", "Aid">>, n + 1),
        Call("search_shelters", <<"Main St">>, n + 2)>> }

\* tools.py line 67: medical_tools = []; medical_node invokes the unbound
\* model (agents.py line 214), which has no tool to request.
MedicalCalls(n) == { <<>> }

Failure == [ok |-> FALSE, content |-> Str(<<>>), tool_calls |-> <<>>]

\* Results of tools_llm.invoke / llm.invoke: an exception or a response.
ModelResults(calls) ==
    { Failure }
    \cup { [ok |-> TRUE, content |-> c, tool_calls |-> tc] :
              c \in ResponseContents, tc \in calls }

\* ---------------------------------------------------------------- tools.py
WaterPacks ==
    [item |-> <<"Water", "Packs">>, quantity |-> 50, location |-> "Shelter A"]

FirstAidKits ==
    [item |-> <<"First", "Aid", "Kits">>, quantity |-> 20, location |-> "Shelter B"]

\* INSERT OR IGNORE on the primary key item.
InsertOrIgnore(inv, row) ==
    IF \E i \in 1..Len(inv) : inv[i].item = row.item THEN inv ELSE Append(inv, row)

\* init_db creating the tables anew.
init_dbReset(db) ==
    [incidents |-> <<>>, inventory |-> <<WaterPacks, FirstAidKits>>]

\* tools.py init_db: the tables are created if absent (the rows of an
\* existing table are kept) and the two inventory rows are seeded.
init_db(db) ==
    [incidents |-> db.incidents,
     inventory |-> InsertOrIgnore(InsertOrIgnore(db.inventory, WaterPacks),
                                  FirstAidKits)]

\* log_incident answering a duplicate report with the row it has.
log_incidentDedup(args, db) ==
    LET same == { i \in 1..Len(db.incidents) :
                    /\ db.incidents[i].severity = args[1]
                    /\ db.incidents[i].location = args[2]
                    /\ db.incidents[i].needs = args[3] }
        id == IF same = {} THEN Len(db.incidents) + 1 ELSE CHOOSE i \in same : TRUE
        row == [id |-> id, severity |-> args[1], location |-> args[2],
                needs |-> args[3], status |-> "OPEN"]
    IN  [db |-> IF same = {} THEN [db EXCEPT !.incidents = Append(@, row)] ELSE db,
         result |-> <<"Incident logged successfully. ID: ", ToString(id),
                      ". Dispatching protocols initiated.">>]

\* tools.py log_incident: one row is inserted with status OPEN; the id is
\* the rowid SQLite assigns, one more than the largest in the table.
log_incident(args, db) ==
    LET id == Len(db.incidents) + 1
        row == [id |-> id, severity |-> args[1], location |-> args[2],
                needs |-> args[3], status |-> "OPEN"]
    IN  [db |-> [db EXCEPT !.incidents = Append(@, row)],
         result |-> <<"Incident logged successfully. ID: ", ToString(id),
                      ". Dispatching protocols initiated.">>]

Lower(w) ==
    CASE w = "Water" -> "water"
      [] w = "Packs" -> "packs"
      [] w = "First" -> "first"
      [] w = "Aid" -> "aid"
      [] w = "Kits" -> "kits"
      [] OTHER -> w

LowerAll(ws) == [i \in 1..Len(ws) |-> Lower(ws[i])]

\* item LIKE '%query%', word by word: the query occurs in the item,
\* letter case ignored.
Like(item, query) ==
    LET it == LowerAll(item)
        q == LowerAll(query)
    IN  \E k \in 0..(Len(it) - Len(q)) : SubSeq(it, k + 1, k + Len(q)) = q

RECURSIVE Markdown(_)
Markdown(rows) ==
    IF rows = <<>> THEN <<>>
    ELSE <<"|">> \o Head(rows).item
         \o <<"|", ToString(Head(rows).quantity), "|", Head(rows).location, "|", NL>>
         \o Markdown(Tail(rows))

\* tools.py check_inventory: reads the inventory table only.
check_inventory(args, db) ==
    LET df == SelectSeq(db.inventory, LAMBDA row : Like(row.item, args))
    IN  [db |-> db,
         result |-> IF df = <<>>
                    THEN <<"No specific inventory found matching that request.">>
                    ELSE <<"| item | quantity | location |", NL>> \o Markdown(df)]

\* What the web-search provider may do: answer, or fail; the Tools node
\* reports a failed tool as the text of its result.
WebResults == { <<"shelters found">>, <<"Error: search failed">> }

\* tools.py search_shelters: no table is touched.
search_shelters(args, db, web) == [db |-> db, result |-> web]

RunTool(c, db, web) ==
    CASE c.name = "log_incident" -> log_incident(c.args, db)
      [] c.name = "check_inventory" -> check_inventory(c.args, db)
      [] c.name = "search_shelters" -> search_shelters(c.args, db, web)

\* The orders in which the requests of one message may reach the store.
Orders(n) ==
    { o \in [1..n -> 1..n] : \A i, j \in 1..n : o[i] = o[j] => i = j }

RECURSIVE RunCalls(_, _, _, _)
RunCalls(calls, order, db, web) ==
    IF order = <<>>
    THEN [db |-> db, results |-> <<>>, ran |-> <<>>]
    ELSE LET k == Head(order)
             one == RunTool(calls[k], db, web)
             rest == RunCalls(calls, Tail(order), one.db, web)
         IN  [db |-> rest.db,
              results |-> (k :> one.result) @@ rest.results,
              ran |-> <<calls[k]>> \o rest.ran]

\* agents.py line 223, tool_node = ToolNode(triage_tools + logistics_tools):
\* every request of the last message of the state is run once, and one
\* tool message per request is returned, in the order of the requests.
tool_node(msgs, db, order, web) ==
    LET calls == msgs[Len(msgs)].tool_calls
        run == RunCalls(calls, order, db, web)
    IN  [messages |-> [i \in 1..Len(calls) |->
                          ToolMessage(run.results[i], calls[i].id)],
         db |-> run.db,
         ran |-> run.ran,
         raised |-> FALSE]

\* ---------------------------------------------------------------- the graph
\* agents.py lines 18-20: AgentState declares messages as a plain
\* List[BaseMessage], with no reducer, so the value a node returns for the
\* key becomes the value of the key.
UpdateMessages(old, new) == new

\* The edge table with FINISH wired to a responder.
SupervisorEdgeSlip(agent) ==
    CASE agent = TRIAGE -> "Triage"
      [] agent = LOGISTICS -> "Logistics"
      [] agent = MEDICAL -> "Medical"
      [] agent = FINISH -> "Triage"
      [] OTHER -> "KeyError"

\* agents.py lines 236-240
SupervisorEdge(agent) ==
    CASE agent = TRIAGE -> "Triage"
      [] agent = LOGISTICS -> "Logistics"
      [] agent = MEDICAL -> "Medical"
      [] agent = FINISH -> "END"
      [] OTHER -> "KeyError"

\* should_continue without its tool branch.
should_continueNever(msgs) == "END"

\* agents.py lines 242-248
should_continue(msgs) ==
    IF HasToolCalls(msgs[Len(msgs)]) THEN "Tools" ELSE "END"

\* Medical looping back to the Supervisor, Tools ending the graph.
MedicalEdgeLoop(msgs) == "Supervisor"
ToolsEdgeEnd(msgs) == "END"

\* agents.py lines 250-253
TriageEdge(msgs) == should_continue(msgs)
LogisticsEdge(msgs) == should_continue(msgs)
MedicalEdge(msgs) == "END"
ToolsEdge(msgs) == "Supervisor"

\* --------------------------------------------------------------- the driver
\* app.py extract_text_content
RECURSIVE TextParts(_)
TextParts(ps) ==
    IF ps = <<>> THEN <<>>
    ELSE IF Head(ps).pk \in {"str", "text"}
         THEN <<Head(ps).v>> \o TextParts(Tail(ps))
         ELSE TextParts(Tail(ps))

extract_text_content(content) ==
    IF content.kind = "str" THEN content.val ELSE Join(TextParts(content.val))

\* The loop without its cap.
CapNever(count) == FALSE

\* app.py lines 313-317: the count is raised, then compared with the cap.
CapTripped(count) == count > max_iterations

\* The capture taking the content of every snapshot, empty or not.
CaptureOverwrites(key, value, text) ==
    IF key = "Supervisor" THEN text
    ELSE IF value # <<>>
         THEN extract_text_content(value[Len(value)].content)
         ELSE text

\* app.py lines 319-333: the reply text after one snapshot {key: value}.
Capture(key, value, text) ==
    IF key = "Supervisor" THEN text
    ELSE IF value # <<>> /\ value[Len(value)].content.val # <<>>
         THEN extract_text_content(value[Len(value)].content)
         ELSE text

\* What the user may type (st.chat_input yields no empty text).
UserTexts == { <<"I was bitten by a dog">> }

\* ------------------------------------------------------------------- state
VARIABLES
    session,             \* st.session_state.messages
    messages,            \* the messages key of the graph state
    next_agent,          \* the next_agent key of the graph state
    shared,              \* the graph state still holds the session's list
    node,                \* the node the graph runs next, END when it is over
    pc,                  \* "idle": waiting for input; "stream": in the loop
    iteration_count,     \* app.py line 309
    final_response_text, \* app.py line 308
    warned,              \* the max-iterations warning was shown, loop left
    noResponse,          \* the no-response warning was shown
    error,               \* the turn ended in the handler of app.py line 342
    db,                  \* resq_link.db: incidents and inventory
    turns,               \* user utterances so far
    stepsUsed,           \* node steps run in the session so far
    lastNode,            \* the node that ran last in this turn
    nodeSteps,           \* how many node functions ran in this turn
    lastRouter,          \* what the router's model call gave, in the state
                         \* right after a Supervisor step
    callCtr,             \* tool-call ids handed out in this turn
    requested,           \* ids of the requests responders emitted in this turn
    runs,                \* per request id, how often it was run in this turn
    ran,                 \* the runs of the Tools step, in the state right after it
    batch,               \* the batch handed to the model, in the state right
                         \* after a responder step
    modelFailed,         \* the responder's model call raised, in that state
    started,             \* the history the graph of this turn was started with
    producedText         \* a node other than the Supervisor has returned a
                         \* message with non-empty content in this turn

vars ==
    <<session, messages, next_agent, shared, node, pc, iteration_count,
      final_response_text, warned, noResponse, error, db, turns, stepsUsed,
      lastNode, nodeSteps, lastRouter, callCtr, requested, runs, ran,
      batch, modelFailed, started, producedText>>

NoRouter == [ok |-> FALSE, content |-> Str(<<"not called">>)]

\* The process has started: tools.py ran init_db on an empty store and
\* app.py created the empty session.
Init ==
    /\ session = <<>>
    /\ messages = <<>>
    /\ next_agent = <<>>
    /\ shared = FALSE
    /\ node = "END"
    /\ pc = "idle"
    /\ iteration_count = 0
    /\ final_response_text = <<>>
    /\ warned = FALSE
    /\ noResponse = FALSE
    /\ error = FALSE
    /\ db = init_db([incidents |-> <<>>, inventory |-> <<>>])
    /\ turns = 0
    /\ stepsUsed = 0
    /\ lastNode = "START"
    /\ nodeSteps = 0
    /\ lastRouter = NoRouter
    /\ callCtr = 0
    /\ requested = {}
    /\ runs = <<>>
    /\ ran = <<>>
    /\ batch = <<>>
    /\ modelFailed = FALSE
    /\ started = <<>>
    /\ producedText = FALSE

\* app.py lines 292-311: the utterance is appended to the session, the
\* graph is started on the session's own list, the loop variables are set.
Start(earlier) ==
    /\ pc = "idle"
    /\ turns < MaxTurns
    /\ stepsUsed <= earlier
    /\ \E text \in UserTexts :
          /\ session' = Append(session, HumanMessage(text))
          /\ messages' = session'
    /\ shared' = TRUE
    /\ next_agent' = <<>>
    /\ node' = "Supervisor"
    /\ pc' = "stream"
    /\ iteration_count' = 0
    /\ final_response_text' = <<>>
    /\ warned' = FALSE
    /\ noResponse' = FALSE
    /\ error' = FALSE
    /\ turns' = turns + 1
    /\ lastNode' = "START"
    /\ nodeSteps' = 0
    /\ lastRouter' = NoRouter
    /\ callCtr' = 0
    /\ requested' = {}
    /\ runs' = <<>>
    /\ ran' = <<>>
    /\ batch' = <<>>
    /\ modelFailed' = FALSE
    /\ started' = session'
    /\ producedText' = FALSE
    /\ UNCHANGED <<db, stepsUsed>>

UserInput == Start(MaxEarlierSteps)

\* The loop of app.py lines 313-333 on the snapshot {key: value} of the
\* node step that has just run, or the handler of line 342 when the step
\* raised.
Driver(key, value, raised) ==
    /\ lastNode' = key
    /\ nodeSteps' = nodeSteps + 1
    /\ stepsUsed' = stepsUsed + 1
    /\ IF raised
       THEN /\ error' = TRUE
            /\ pc' = "idle"
            /\ UNCHANGED <<iteration_count, final_response_text, warned>>
       ELSE /\ iteration_count' = iteration_count + 1
            /\ warned' = CapTripped(iteration_count')
            /\ final_response_text' =
                  IF warned' THEN final_response_text
                  ELSE Capture(key, value, final_response_text)
            /\ UNCHANGED <<error, pc>>
    /\ UNCHANGED <<noResponse, turns>>

Running(n) == pc = "stream" /\ ~warned /\ node = n /\ nodeSteps < MaxNodeSteps

\* One step of the Supervisor node and the driver's handling of its
\* snapshot.
SupervisorStep ==
    /\ Running("Supervisor")
    /\ \E r \in RouterResults :
          LET out == supervisor_node(r)
              edge == SupervisorEdge(out.next_agent)
              raised == out.raised \/ edge = "KeyError"
          IN  /\ lastRouter' = r
              /\ next_agent' = out.next_agent
              /\ node' = IF raised THEN "END" ELSE edge
              /\ messages' = SupervisorMessages(messages, out)
              /\ Driver("Supervisor", <<>>, raised)
    /\ session' = IF shared THEN NormalizeAll(session) ELSE session
    /\ ran' = <<>>
    /\ batch' = <<>>
    /\ modelFailed' = FALSE
    /\ UNCHANGED <<shared, db, callCtr, requested, runs, started, producedText>>

\* What a responder step leaves behind: its message becomes the messages
\* key, the message objects it wrote into are those of the session while
\* the state still holds the session's list, and its requests are pending.
ResponderEffects(key, out, edge, r) ==
    /\ messages' = UpdateMessages(messages, out.messages)
    /\ session' = IF shared THEN out.inplace ELSE session
    /\ shared' = FALSE
    /\ node' = IF out.raised THEN "END" ELSE edge
    /\ callCtr' = callCtr + Len(out.messages[1].tool_calls)
    /\ requested' = requested \cup
          { out.messages[1].tool_calls[i].id : i \in 1..Len(out.messages[1].tool_calls) }
    /\ runs' = runs \o [i \in 1..Len(out.messages[1].tool_calls) |-> 0]
    /\ lastRouter' = NoRouter
    /\ ran' = <<>>
    /\ batch' = out.batch
    /\ modelFailed' = ~r.ok
    /\ producedText' =
          (producedText \/ \E i \in 1..Len(out.messages) : out.messages[i].content.val # <<>>)
    /\ Driver(key, out.messages, out.raised)
    /\ UNCHANGED <<next_agent, db, started>>

TriageStep ==
    /\ Running("Triage")
    /\ \E r \in ModelResults(TriageCalls(callCtr)) :
          LET out == triage_node(messages, r)
          IN  ResponderEffects("Triage", out,
                               TriageEdge(UpdateMessages(messages, out.messages)), r)

LogisticsStep ==
    /\ Running("Logistics")
    /\ \E r \in ModelResults(LogisticsCalls(callCtr)) :
          LET out == logistics_node(messages, r)
          IN  ResponderEffects("Logistics", out,
                               LogisticsEdge(UpdateMessages(messages, out.messages)), r)

MedicalStep ==
    /\ Running("Medical")
    /\ \E r \in ModelResults(MedicalCalls(callCtr)) :
          LET out == medical_node(messages, r)
          IN  ResponderEffects("Medical", out,
                               MedicalEdge(UpdateMessages(messages, out.messages)), r)

\* The count of runs per request id after the runs of one Tools step.
RECURSIVE Count(_, _)
Count(rs, ranNow) ==
    IF ranNow = <<>> THEN rs
    ELSE Count([rs EXCEPT ![Head(ranNow).id] = @ + 1], Tail(ranNow))

\* One step of the Tools node.
ToolsStep ==
    /\ Running("Tools")
    /\ \E order \in Orders(Len(messages[Len(messages)].tool_calls)), web \in WebResults :
          LET out == tool_node(messages, db, order, web)
          IN  /\ messages' = UpdateMessages(messages, out.messages)
              /\ db' = out.db
              /\ runs' = Count(runs, out.ran)
              /\ ran' = [i \in 1..Len(out.ran) |-> [call |-> out.ran[i], by |-> lastNode]]
              /\ node' = IF out.raised THEN "END" ELSE ToolsEdge(messages')
              /\ producedText' =
                    (producedText \/ \E i \in 1..Len(out.messages) :
                                        out.messages[i].content.val # <<>>)
              /\ Driver("Tools", out.messages, out.raised)
    /\ lastRouter' = NoRouter
    /\ batch' = <<>>
    /\ modelFailed' = FALSE
    /\ UNCHANGED <<session, next_agent, shared, callCtr, requested, started>>

\* The end of the turn taking the messages of the graph state into the
\* session, the reply included.
EndTurnKeepsAll ==
    /\ pc = "stream"
    /\ node = "END" \/ warned
    /\ pc' = "idle"
    /\ IF final_response_text # <<>>
       THEN /\ session' = session \o messages
            /\ UNCHANGED noResponse
       ELSE /\ noResponse' = TRUE
            /\ UNCHANGED session
    /\ UNCHANGED <<messages, next_agent, shared, node, iteration_count,
                   final_response_text, warned, error, db, turns, stepsUsed,
                   lastNode, nodeSteps, lastRouter, callCtr, requested, runs, ran,
                   batch, modelFailed, started, producedText>>

\* The end of the turn dropping the captured text when the cap stopped it.
EndTurnDiscards ==
    /\ pc = "stream"
    /\ node = "END" \/ warned
    /\ pc' = "idle"
    /\ IF final_response_text # <<>> /\ ~warned
       THEN /\ session' = Append(session, AIMessage(final_response_text))
            /\ UNCHANGED noResponse
       ELSE /\ noResponse' = TRUE
            /\ UNCHANGED session
    /\ UNCHANGED <<messages, next_agent, shared, node, iteration_count,
                   final_response_text, warned, error, db, turns, stepsUsed,
                   lastNode, nodeSteps, lastRouter, callCtr, requested, runs, ran,
                   batch, modelFailed, started, producedText>>

\* app.py lines 335-340, after the loop: the captured text is appended
\* to the session as one assistant message, or the warning is shown.
EndTurn ==
    /\ pc = "stream"
    /\ node = "END" \/ warned
    /\ pc' = "idle"
    /\ IF final_response_text # <<>>
       THEN /\ session' = Append(session, AIMessage(final_response_text))
            /\ UNCHANGED noResponse
       ELSE /\ noResponse' = TRUE
            /\ UNCHANGED session
    /\ UNCHANGED <<messages, next_agent, shared, node, iteration_count,
                   final_response_text, warned, error, db, turns, stepsUsed,
                   lastNode, nodeSteps, lastRouter, callCtr, requested, runs, ran,
                   batch, modelFailed, started, producedText>>

\* app.py lines 196-198, the Reboot System button.
Reboot ==
    /\ pc = "idle"
    /\ session # <<>>
    /\ session' = <<>>
    /\ UNCHANGED <<messages, next_agent, shared, node, pc, iteration_count,
                   final_response_text, warned, noResponse, error, db, turns,
                   stepsUsed, lastNode, nodeSteps, lastRouter, callCtr,
                   requested, runs, ran, batch, modelFailed, started,
                   producedText>>

\* The process is started again on the store it left: tools.py line 27
\* runs init_db at import, and app.py lines 263-264 create a new, empty
\* session.
Restart ==
    /\ pc = "idle"
    /\ db' = init_db(db)
    /\ session' = <<>>
    /\ UNCHANGED <<messages, next_agent, shared, node, pc, iteration_count,
                   final_response_text, warned, noResponse, error, turns,
                   stepsUsed, lastNode, nodeSteps, lastRouter, callCtr,
                   requested, runs, ran, batch, modelFailed, started,
                   producedText>>

Next ==
    \/ UserInput
    \/ SupervisorStep
    \/ TriageStep
    \/ LogisticsStep
    \/ MedicalStep
    \/ ToolsStep
    \/ EndTurn
    \/ Reboot
    \/ Restart

Spec == Init /\ [][Next]_vars

\* Each node step completes and the loop goes on to the next one: the
\* execution is single-threaded and synchronous.
TurnStep ==
    SupervisorStep \/ TriageStep \/ LogisticsStep \/ MedicalStep \/ ToolsStep \/ EndTurn

LiveInput == Start(LiveEarlierSteps)

LiveNext == LiveInput \/ TurnStep

FairSpec == Init /\ [][LiveNext]_vars /\ WF_vars(TurnStep)

\* The graph run on a history of any shape, as app_graph.stream does for
\* whatever list it is handed: empty, system messages only, a system or
\* an assistant message before the first user message, a user message
\* with a multi-part content.
UnitHistories ==
    { <<>>,
      <<SystemMessage(<<"rules">>)>>,
      <<SystemMessage(<<"rules">>), SystemMessage(<<"more rules">>)>>,
      <<SystemMessage(<<"rules">>), HumanMessage(<<"where is water">>)>>,
      <<AIMessage(<<"welcome">>), HumanMessage(<<"where is water">>)>>,
      <<[type |-> "human",
         content |-> Lst(<<[pk |-> "text", v |-> <<"where">>],
                           [pk |-> "str", v |-> <<"is water">>]>>),
         tool_calls |-> <<>>, tool_call_id |-> 0]>> }

UnitInit ==
    /\ session \in UnitHistories
    /\ messages = session
    /\ started = session
    /\ shared = TRUE
    /\ next_agent = <<>>
    /\ node = "Supervisor"
    /\ pc = "stream"
    /\ iteration_count = 0
    /\ final_response_text = <<>>
    /\ warned = FALSE
    /\ noResponse = FALSE
    /\ error = FALSE
    /\ db = init_db([incidents |-> <<>>, inventory |-> <<>>])
    /\ turns = 1
    /\ stepsUsed = 0
    /\ lastNode = "START"
    /\ nodeSteps = 0
    /\ lastRouter = NoRouter
    /\ callCtr = 0
    /\ requested = {}
    /\ runs = <<>>
    /\ ran = <<>>
    /\ batch = <<>>
    /\ modelFailed = FALSE
    /\ producedText = FALSE

UnitSpec == UnitInit /\ [][TurnStep]_vars

\* ------------------------------------------------------------------ claims
IsPrefix(a, b) == Len(a) <= Len(b) /\ SubSeq(b, 1, Len(a)) = a

\* A node function runs in this step.
StepTaken == nodeSteps' = nodeSteps + 1

\* C1: over every node step of a turn, the message sequence the graph
\* state held before the step is a prefix of the one it holds after it.
C1_HistoryIsPrefix == [][StepTaken => IsPrefix(messages, messages')]_vars

\* C2: when the loop's cap stops a turn, exactly 10 node steps have run:
\* no 11th step has run and no fewer than 10 have.
C2_CapAtTenSteps == warned => nodeSteps = max_iterations

\* C3: every turn that has started comes to its end, whatever the router
\* and the responders answer, given that each node step completes.
C3_TurnTerminates == (pc = "stream") ~> (pc = "idle")

C3_Witness == pc = "idle" /\ warned /\ iteration_count = max_iterations + 1

\* C4: the decision a Supervisor step stores is one of the four labels,
\* and the Supervisor's outgoing edge is defined.
C4_DecisionRecognized ==
    nodeSteps > 0 =>
        /\ next_agent \in {TRIAGE, LOGISTICS, MEDICAL, FINISH}
        /\ ~error
        /\ lastNode = "Supervisor" => node \in {"Triage", "Logistics", "Medical", "END"}

C4_Witness ==
    /\ lastNode = "Supervisor"
    /\ lastRouter = [ok |-> TRUE, content |-> Str(<<"I", SP, "choose", SP, "Medical">>)]
    /\ next_agent = TRIAGE

\* The router's call failed (it raised, or its content was no string), or
\* the text left after cleaning is none of the four labels.
RouterFellBack ==
    \/ ~lastRouter.ok
    \/ lastRouter.content.kind # "str"
    \/ Remove(Remove(Strip(lastRouter.content.val), "'"), ".")
          \notin {TRIAGE, LOGISTICS, MEDICAL, FINISH}

\* C5: when the router's model call fails, or its cleaned output is not
\* a recognized label, the decision is Triage and nothing is raised.
C5_FallbackIsTriage ==
    (lastNode = "Supervisor" /\ RouterFellBack) =>
        next_agent = TRIAGE /\ node = "Triage" /\ ~error

C5_Witness ==
    /\ lastNode = "Supervisor"
    /\ lastRouter = [ok |-> FALSE, content |-> Str(<<>>)]
    /\ next_agent = TRIAGE
    /\ pc = "stream"

\* C6: after a Supervisor step that yields Finish the graph is over and
\* no node runs any more in the turn; after one that yields Triage,
\* Logistics or Medical the next node step is that responder's.
C6_SupervisorRoutes ==
    /\ [](lastNode = "Supervisor" => (next_agent = FINISH <=> node = "END"))
    /\ [][(lastNode = "Supervisor" /\ StepTaken) =>
            /\ next_agent # FINISH
            /\ next_agent = TRIAGE => lastNode' = "Triage"
            /\ next_agent = LOGISTICS => lastNode' = "Logistics"
            /\ next_agent = MEDICAL => lastNode' = "Medical"]_vars

C6_Witness ==
    /\ pc = "idle"
    /\ lastNode = "Supervisor"
    /\ next_agent = FINISH
    /\ nodeSteps = 1

\* C7: after a Triage or Logistics step the graph goes to Tools exactly
\* when the message the responder has just emitted carries a tool-call
\* request, and to its end otherwise.
C7_ResponderEdge ==
    lastNode \in {"Triage", "Logistics"} =>
        /\ node \in {"Tools", "END"}
        /\ node = "Tools" <=> Len(messages[Len(messages)].tool_calls) > 0

C7_Witness ==
    /\ lastNode = "Logistics"
    /\ node = "Tools"
    /\ Len(messages[Len(messages)].tool_calls) = 2

\* C8: after a Medical step the graph is over; no Tools step follows it.
C8_MedicalEnds ==
    /\ [](lastNode = "Medical" => node = "END")
    /\ [][lastNode = "Medical" => ~StepTaken]_vars

C8_Witness == lastNode = "Medical" /\ pc = "idle" /\ final_response_text # <<>>

\* C9: after a Tools step the next node is the Supervisor, which runs
\* before any responder does.
C9_ToolsToSupervisor ==
    /\ [](lastNode = "Tools" => node = "Supervisor")
    /\ [][(lastNode = "Tools" /\ StepTaken) => lastNode' = "Supervisor"]_vars

C9_Witness == lastNode = "Supervisor" /\ nodeSteps = 4

\* C10: every request a responder emits in a turn is run exactly once,
\* none is left unrun when the turn has ended, and the Tools step runs
\* only requests of the responder step right before it.
C10_RequestsRunOnce ==
    /\ \A id \in requested : runs[id] <= 1
    /\ pc = "idle" => \A id \in requested : runs[id] = 1
    /\ \A i \in 1..Len(ran) :
          ran[i].by \in {"Triage", "Logistics"} /\ ran[i].call.id \in requested

\* C11: over every node step the session history does not shrink and
\* each message it held keeps its content, a multi-part content being
\* collapsed into one string at most.
C11_SessionKept ==
    [][StepTaken =>
          /\ Len(session') >= Len(session)
          /\ \A i \in 1..Len(session) :
                session'[i] = normalize_message_content(session[i])]_vars

Responders == {"Triage", "Logistics", "Medical"}

FallbackOf(n) ==
    CASE n = "Triage" -> TriageFallback
      [] n = "Logistics" -> LogisticsFallback
      [] n = "Medical" -> MedicalFallback

\* C12: right after a responder step whose model invocation failed, the
\* step has emitted exactly one message, the fixed warning of that
\* responder with no tool-call request, nothing was raised, and the graph
\* is at its end.
C12_FallbackOnFailure ==
    (lastNode \in Responders /\ modelFailed) =>
        /\ messages = <<AIMessage(FallbackOf(lastNode))>>
        /\ messages[1].tool_calls = <<>>
        /\ node = "END"
        /\ ~error

C12_Witness ==
    /\ lastNode = "Logistics"
    /\ modelFailed
    /\ pc = "idle"
    /\ session[Len(session)] = AIMessage(LogisticsFallback)

ContextOf(n) ==
    CASE n = "Triage" -> TriageContext
      [] n = "Logistics" -> LogisticsContext
      [] n = "Medical" -> MedicalContext

\* The placeholder a responder substitutes on the history h.
PlaceholderOf(n, h) ==
    CASE n = "Triage" /\ h = <<>> -> <<"User reported an incident.">>
      [] n = "Triage" /\ h # <<>> -> <<"User needs assistance.">>
      [] n = "Logistics" -> <<"User needs logistics assistance.">>
      [] n = "Medical" -> <<"User needs medical advice.">>

SystemOnly(h) == \A i \in 1..Len(h) : h[i].type = "system"

\* C13: a responder step on an empty history, or on one of system
\* messages only, returns exactly one message and raises nothing, and the
\* batch it handed to the model is the one placeholder user message.
C13_PlaceholderOnEmpty ==
    (lastNode \in Responders /\ nodeSteps = 2 /\ SystemOnly(started)) =>
        /\ Len(messages) = 1
        /\ messages[1].type = "ai"
        /\ ~error
        /\ batch =
              <<HumanMessage(ContextOf(lastNode) \o PlaceholderOf(lastNode, started))>>

C13_Witness ==
    /\ lastNode = "Medical"
    /\ nodeSteps = 2
    /\ started = <<SystemMessage(<<"rules">>), SystemMessage(<<"more rules">>)>>
    /\ batch = <<HumanMessage(MedicalContext \o <<"User needs medical advice.">>)>>
    /\ ~modelFailed

\* The log_incident runs of the step, none when the step is no Tools step.
LogRuns(rs) == { i \in 1..Len(rs) : rs[i].call.name = "log_incident" }

ToolsStepTaken == StepTaken /\ lastNode' = "Tools"

\* C14: every row of the incident table has an id of its own, and a
\* Tools step that runs n log_incident calls, identical arguments
\* included, leaves exactly n more rows and returns the n ids of the new
\* rows.
C14_LogIncidentNotIdempotent ==
    /\ [](\A i \in 1..Len(db.incidents) : db.incidents[i].id = i)
    /\ [][ToolsStepTaken =>
            LET n == Cardinality(LogRuns(ran'))
                returned == { messages'[i].content.val[2] :
                                i \in { j \in 1..Len(messages') :
                                          messages'[j].content.val[1] =
                                              "Incident logged successfully. ID: " } }
            IN  /\ Len(db'.incidents) = Len(db.incidents) + n
                /\ returned = { ToString(k) :
                                  k \in (Len(db.incidents) + 1)..Len(db'.incidents) }
                /\ Cardinality(returned) = n]_vars

C14_Witness ==
    /\ lastNode = "Tools"
    /\ Len(ran) = 2
    /\ ran[1].call.name = "log_incident"
    /\ ran[2].call.name = "log_incident"
    /\ ran[1].call.args = ran[2].call.args
    /\ Len(db.incidents) = 4
    /\ messages[1].content.val[2] # messages[2].content.val[2]

\* C15: over every step the incident rows are kept as they are, new rows
\* come after them, and only from a Tools step that runs log_incident;
\* every row has status OPEN; the inventory table stays as seeded.
C15_StoreFrame ==
    /\ [](/\ \A i \in 1..Len(db.incidents) : db.incidents[i].status = "OPEN"
          /\ db.inventory = <<WaterPacks, FirstAidKits>>)
    /\ [][/\ IsPrefix(db.incidents, db'.incidents)
          /\ db'.inventory = db.inventory
          /\ db'.incidents # db.incidents =>
                ToolsStepTaken /\ LogRuns(ran') # {}
          /\ (ToolsStepTaken /\ LogRuns(ran') = {}) => db' = db]_vars

C15_Witness ==
    /\ lastNode = "Tools"
    /\ Len(ran) = 2
    /\ ran[1].call.name = "search_shelters"
    /\ ran[2].call.name = "check_inventory"
    /\ Len(db.incidents) = 2
    /\ turns = 2

TurnEnds == pc = "stream" /\ pc' = "idle"

\* C16: a turn in which no node other than the Supervisor returned a
\* non-empty content ends with the no-response warning and with the
\* session history it was started with.
C16_NoResponseKeepsHistory ==
    [][(TurnEnds /\ ~producedText') => (noResponse' /\ session' = started)]_vars

\* C17: the step at which the cap trips leaves the session history and
\* the captured text as they were, and the end of the capped turn keeps
\* every message of the session and appends the captured text, which is
\* not empty, as the reply.
C17_CapKeepsHistory ==
    /\ [][(~warned /\ warned') =>
            session' = session /\ final_response_text' = final_response_text]_vars
    /\ [][(warned /\ TurnEnds) =>
            /\ producedText
            /\ final_response_text # <<>>
            /\ session' = Append(session, AIMessage(final_response_text))
            /\ ~noResponse']_vars

C17_Witness ==
    /\ pc = "idle"
    /\ warned
    /\ ~noResponse
    /\ Len(session) = Len(started) + 1
    /\ session[Len(session)] = AIMessage(final_response_text)
    /\ final_response_text # <<>>

\* C18: every tool run on behalf of Triage is log_incident, and every
\* tool run on behalf of Logistics is check_inventory or search_shelters.
C18_ToolsOfResponder ==
    \A i \in 1..Len(ran) :
        /\ ran[i].by = "Triage" => ran[i].call.name = "log_incident"
        /\ ran[i].by = "Logistics" =>
              ran[i].call.name \in {"check_inventory", "search_shelters"}
        /\ ran[i].by \in {"Triage", "Logistics"}

C18_Witness ==
    /\ lastNode = "Tools"
    /\ Len(ran) = 2
    /\ ran[1].by = "Triage"
    /\ ran[2].call.name = "log_incident"

SupervisorStepTaken == StepTaken /\ lastNode' = "Supervisor"

\* C19: a Supervisor step leaves the message list of the graph state, the
\* session history and the captured reply text as they were; only the
\* decision changes.
C19_SupervisorKeepsMessages ==
    [][SupervisorStepTaken =>
          /\ messages' = messages
          /\ session' = session
          /\ final_response_text' = final_response_text
          /\ next_agent' \in {TRIAGE, LOGISTICS, MEDICAL, FINISH}]_vars

C19_Witness ==
    /\ lastNode = "Supervisor"
    /\ nodeSteps = 4
    /\ Len(messages) = 2
    /\ messages[1].type = "tool"
    /\ next_agent = LOGISTICS

\* Index of the first user message of ms, 0 if none.
FirstHuman(ms) ==
    IF \E i \in 1..Len(ms) : ms[i].type = "human"
    THEN CHOOSE i \in 1..Len(ms) :
            ms[i].type = "human" /\ \A j \in 1..(i - 1) : ms[j].type # "human"
    ELSE 0

\* C20: when the history a responder step is run on holds a user message
\* once its system messages are dropped, the first user message of the
\* batch is the role prompt of the responder followed by the text the
\* user typed.
C20_PromptPrefixedOnce ==
    [][(StepTaken /\ lastNode' \in Responders /\ FirstHuman(NonSystem(messages)) # 0) =>
          LET k == FirstHuman(NonSystem(messages))
          IN  \E t \in UserTexts :
                 batch'[k].content.val = ContextOf(lastNode') \o t]_vars

\* C21: the batch of every responder step holds a user message and no
\* system message; when the history without its system messages holds a
\* user message the batch is that list, nothing appended (the first
\* message prefixed at most), and otherwise it is that list with one
\* user message appended: the generic filler, or the placeholder when
\* the list is empty.
C21_BatchHasUserMessage ==
    [][(StepTaken /\ lastNode' \in Responders) =>
          LET f == NonSystem(NormalizeAll(messages))
              n == Len(batch')
          IN  /\ \E i \in 1..n : batch'[i].type = "human"
              /\ \A i \in 1..n : batch'[i].type # "system"
              /\ IF FirstHuman(f) # 0
                 THEN /\ n = Len(f)
                      /\ \A i \in 1..n :
                            /\ batch'[i].type = f[i].type
                            /\ i # 1 => batch'[i] = f[i]
                 ELSE /\ n = Len(f) + 1
                      /\ SubSeq(batch', 1, Len(f)) = f
                      /\ batch'[n].type = "human"
                      /\ f # <<>> =>
                            batch'[n] = HumanMessage(<<"Hello, I need assistance.">>)]_vars

C21_Witness ==
    /\ lastNode = "Triage"
    /\ nodeSteps = 5
    /\ Len(batch) = 3
    /\ batch[1].type = "tool"
    /\ batch[2].type = "tool"
    /\ batch[3] = HumanMessage(<<"Hello, I need assistance.">>)
    /\ started = <<SystemMessage(<<"rules">>), HumanMessage(<<"where is water">>)>>

\* The text of the last message of ms with a non-empty content, text if
\* there is none.
RECURSIVE LastText(_, _)
LastText(ms, text) ==
    IF ms = <<>> THEN text
    ELSE IF ms[Len(ms)].content.val # <<>>
         THEN extract_text_content(ms[Len(ms)].content)
         ELSE LastText(SubSeq(ms, 1, Len(ms) - 1), text)

\* C22: after every snapshot the loop handled, the captured text is that
\* of the last message with a non-empty content of the snapshot of a
\* Triage, Logistics, Medical or Tools step, and what it was before
\* when the snapshot has none or is the Supervisor's; the turn's reply is
\* the captured text.
C22_ReplyIsLastText ==
    /\ [][(StepTaken /\ ~warned') =>
            final_response_text' =
                IF lastNode' = "Supervisor"
                THEN final_response_text
                ELSE LastText(messages', final_response_text)]_vars
    /\ [][(TurnEnds /\ final_response_text # <<>>) =>
            session' = Append(session, AIMessage(final_response_text))]_vars

C22_Witness ==
    /\ pc = "idle"
    /\ lastNode = "Logistics"
    /\ nodeSteps = 5
    /\ messages[1].content.val = <<>>
    /\ final_response_text = <<"shelters found">>
    /\ session[Len(session)] = AIMessage(<<"shelters found">>)

\* C23: the session holds user and assistant messages without tool-call
\* requests only; a turn starts by appending the one user message, its
\* node steps leave the number and the kinds of the session's messages
\* as they are, and its end appends one assistant message or nothing.
C23_SessionGrowth ==
    /\ [](/\ \A i \in 1..Len(session) :
                /\ session[i].type \in {"human", "ai"}
                /\ session[i].tool_calls = <<>>
          /\ pc = "stream" => Len(session) = Len(started))
    /\ [][/\ turns' = turns + 1 =>
                \E t \in UserTexts : session' = Append(session, HumanMessage(t))
          /\ StepTaken =>
                /\ Len(session') = Len(session)
                /\ \A i \in 1..Len(session) : session'[i].type = session[i].type
          /\ TurnEnds =>
                \/ session' = session
                \/ /\ Len(session') = Len(started) + 1
                   /\ session' = Append(session, AIMessage(final_response_text))]_vars

C23_Witness ==
    /\ pc = "idle"
    /\ turns = 2
    /\ nodeSteps = 7
    /\ Len(db.incidents) = 4
    /\ Len(session) = 4
    /\ session[2].type = "ai"
    /\ session[3].type = "human"
    /\ session[4].type = "ai"

====
